---- MODULE Spec2Model ----
(***************************************************************************)
(* Model of src/aws_db_utils.py: SecretsManagerService, RdsMySQLService,   *)
(* RedshiftService.  Times are integers (tenths of a second).              *)
(***************************************************************************)
EXTENDS Integers, Sequences, FiniteSets, TLC

(***************************************************************************)
(* Bounds of the model.                                                    *)
(***************************************************************************)
MaxTimeout == 3
MaxPollInterval == 2
MaxCalls == 6
MaxTags == 3
MaxColumns == 2
MaxRecords == 2

(***************************************************************************)
(* Python values.  Every value is a record of one shape so that values of  *)
(* different Python types can be compared.                                 *)
(***************************************************************************)
None == [t |-> "none", s |-> "", n |-> 0]
PyStr(x) == [t |-> "str", s |-> x, n |-> 0]
PyInt(x) == [t |-> "int", s |-> "", n |-> x]
PyBool(b) == [t |-> "bool", s |-> "", n |-> IF b THEN 1 ELSE 0]
PyFloat(x) == [t |-> "float", s |-> x, n |-> 0]
\* a raised exception, where a call's outcome is recorded as a value
PyErr(x) == [t |-> "error", s |-> x, n |-> 0]

\* Python truth value of a value: None, "", 0 and False are falsy.
Truthy(v) ==
    CASE v.t = "none" -> FALSE
      [] v.t = "str" -> v.s # ""
      [] v.t = "int" -> v.n # 0
      [] v.t = "bool" -> v.n # 0
      [] OTHER -> TRUE

\* Python's `a or b`: a when a is truthy, otherwise b.
PyOr(a, b) == IF Truthy(a) THEN a ELSE b

\* dict.get(k): the value under k, None when the key is absent.
Get(d, k) == IF k \in DOMAIN d THEN d[k] ELSE None

\* dict.get(k, default)
GetDefault(d, k, default) == IF k \in DOMAIN d THEN d[k] ELSE default

(***************************************************************************)
(* The Redshift Data API call execute_query_data_api.                      *)
(***************************************************************************)
VARIABLES
    apc,            \* position of the call: idle, validate, submit, poll, sleep, fetch, done
    ain,            \* the arguments of the call
    waited,         \* local variable waited
    statement_id,   \* local variable statement_id
    status,         \* local variable status (last describe.get("Status"))
    message,        \* describe.get("Error") of the last poll
    dlog,           \* calls made on data_client, in order
    aout,           \* how the call ended
    rows            \* the rows the call returned

apiVars == <<apc, ain, waited, statement_id, status, message, dlog, aout, rows>>

VARIABLES
    cpc,            \* per caller: off, idle, entry, vault, open, block, close, done
    cin,            \* per caller: the arguments of the connector call
    secret,         \* per caller: what get_secret returned
    params,         \* per caller: local variable params
    conn,           \* per caller: local variable conn (index into sessions, 0: none)
    blockExc,       \* per caller: the exception the caller's block raised ("": none)
    cout,           \* per caller: how the scope ended
    vaultLog,       \* get_secret_value calls, in order
    connectLog,     \* driver connect calls, in order
    sessions        \* the sessions the drivers opened

connVars == <<cpc, cin, secret, params, conn, blockExc, cout, vaultLog, connectLog, sessions>>

VARIABLES
    dpc,            \* position of a result decoding: off, start, done
    dpage,          \* the get_statement_result response being decoded
    drows,          \* the rows decoded from it
    dkeys           \* per row, its keys in the order the dict holds them

decVars == <<dpc, dpage, drows, dkeys>>

vars == <<apiVars, connVars, decVars>>

NoArgs == [cluster_identifier |-> None, workgroup_name |-> None, wait |-> TRUE,
           poll_interval |-> 0, timeout |-> 0]
NoOutcome == [kind |-> "none", err |-> "", status |-> None, message |-> None]
Returned == [kind |-> "return", err |-> "", status |-> None, message |-> None]
Raised(e) == [kind |-> "raise", err |-> e, status |-> None, message |-> None]

\* RuntimeError(f"... statement {id} failed with status {status}: {message}")
StatementError(st, msg) == [kind |-> "raise", err |-> "RuntimeError", status |-> st, message |-> msg]

TargetArgs == {None, PyStr(""), PyStr("target-1")}
StatementIds == {"id-1", "id-2"}
\* what describe_statement may answer as Status (None: the key is missing)
BackendStatuses ==
    {PyStr("STARTED"), None, PyStr("FINISHED"), PyStr("ABORTED"), PyStr("FAILED"),
     PyStr("TIMED_OUT")}
BackendErrors == {None, PyStr("boom")}

DescribeEntries == {e \in DOMAIN dlog : dlog[e].op = "describe_statement"}
ResultEntries == {e \in DOMAIN dlog : dlog[e].op = "get_statement_result"}
ExecuteEntries == {e \in DOMAIN dlog : dlog[e].op = "execute_statement"}

\* one call on data_client: the operation, the Id it named (or got), the keyword
\* arguments passed, the value answered (Status for describe_statement) and
\* the Error field of the answer
LogEntry(op, id, kw, ret, error) == [op |-> op, id |-> id, kwargs |-> kw, ret |-> ret, error |-> error]

\* The caller invokes execute_query_data_api(sql, database=..., ...).
ApiCall ==
    /\ apc = "idle"
    /\ \E c \in TargetArgs, w \in TargetArgs, wt \in BOOLEAN,
          p \in -1..MaxPollInterval, t \in -1..MaxTimeout :
          ain' = [cluster_identifier |-> c, workgroup_name |-> w, wait |-> wt,
                  poll_interval |-> p, timeout |-> t]
    /\ apc' = "validate"
    /\ UNCHANGED <<waited, statement_id, status, message, dlog, aout, rows>>
    /\ UNCHANGED <<connVars, decVars>>

\* if not (cluster_identifier or workgroup_name): raise ValueError
TargetMissing(a) == ~Truthy(PyOr(a.cluster_identifier, a.workgroup_name))

\* kwargs built for execute_statement (the optional keys that depend on the target)
BuildKwargs(a) ==
    {"Sql", "Database"}
        \cup (IF Truthy(a.cluster_identifier) THEN {"ClusterIdentifier"} ELSE {})
        \cup (IF Truthy(a.workgroup_name) THEN {"WorkgroupName"} ELSE {})

ApiValidate ==
    /\ apc = "validate"
    /\ IF TargetMissing(ain)
         THEN /\ apc' = "done"
              /\ aout' = Raised("ValueError")
         ELSE /\ apc' = "submit"
              /\ aout' = aout
    /\ UNCHANGED <<ain, waited, statement_id, status, message, dlog, rows>>
    /\ UNCHANGED <<connVars, decVars>>

\* a fault: the wait flag is ignored and the call always polls
ReturnsWithoutWaitingNever(a) == FALSE

\* if not wait: return []
ReturnsWithoutWaiting(a) == ~a.wait

\* a fault: FINISHED does not end the loop
IsFinishedNever(st) == FALSE

\* if status == "FINISHED": break
IsFinished(st) == st = PyStr("FINISHED")

\* a fault: TIMED_OUT is left out of the failure statuses
IsFailureStatusNoTimedOut(st) == st \in {PyStr("ABORTED"), PyStr("FAILED")}

\* if status in ("ABORTED", "FAILED", "TIMED_OUT"): raise RuntimeError
IsFailureStatus(st) == st \in {PyStr("ABORTED"), PyStr("FAILED"), PyStr("TIMED_OUT")}

\* a fault: the loop runs once more when waited has just reached timeout
LoopContinuesInclusive(w, a) == w <= a.timeout

\* while waited < timeout
LoopContinues(w, a) == w < a.timeout

\* resp = self.data_client.execute_statement(**kwargs); statement_id = resp["Id"]
\* then `if not wait: return []` and `waited = 0.0`
ApiSubmitOk ==
    /\ apc = "submit"
    /\ \E id \in StatementIds :
          /\ dlog' = Append(dlog, LogEntry("execute_statement", id, BuildKwargs(ain), PyStr(id), None))
          /\ statement_id' = id
    /\ IF ReturnsWithoutWaiting(ain)
         THEN /\ apc' = "done"
              /\ aout' = Returned
         ELSE /\ apc' = "poll"
              /\ aout' = aout
    /\ waited' = 0
    /\ UNCHANGED <<ain, status, message, rows>>
    /\ UNCHANGED <<connVars, decVars>>

\* a fault: the submission error is swallowed and the call goes on to poll
ApiSubmitFailSwallowed ==
    /\ apc = "submit"
    /\ dlog' = Append(dlog, LogEntry("execute_statement", "", BuildKwargs(ain), PyErr("ClientError"), None))
    /\ apc' = "poll"
    /\ waited' = 0
    /\ UNCHANGED <<ain, aout, statement_id, status, message, rows>>
    /\ UNCHANGED <<connVars, decVars>>

\* execute_statement raises botocore ClientError: logged and re-raised
ApiSubmitFail ==
    /\ apc = "submit"
    /\ dlog' = Append(dlog, LogEntry("execute_statement", "", BuildKwargs(ain), PyErr("ClientError"), None))
    /\ apc' = "done"
    /\ aout' = Raised("ClientError")
    /\ UNCHANGED <<ain, waited, statement_id, status, message, rows>>
    /\ UNCHANGED <<connVars, decVars>>

\* while waited < timeout: describe = describe_statement(Id=statement_id);
\* status = describe.get("Status"); FINISHED breaks, a failure status raises
ApiDescribe ==
    /\ apc = "poll"
    /\ LoopContinues(waited, ain)
    /\ Len(dlog) < MaxCalls
    /\ \E st \in BackendStatuses, msg \in BackendErrors :
          /\ dlog' = Append(dlog, LogEntry("describe_statement", statement_id, {"Id"}, st, msg))
          /\ status' = st
          /\ message' = msg
          /\ IF IsFinished(st)
               THEN /\ apc' = "fetch"
                    /\ aout' = aout
               ELSE IF IsFailureStatus(st)
                 THEN /\ apc' = "done"
                      /\ aout' = StatementError(st, msg)
                 ELSE /\ apc' = "sleep"
                      /\ aout' = aout
    /\ UNCHANGED <<ain, waited, statement_id, rows>>
    /\ UNCHANGED <<connVars, decVars>>

\* describe_statement raises: nothing catches it inside the loop
ApiDescribeFail ==
    /\ apc = "poll"
    /\ LoopContinues(waited, ain)
    /\ Len(dlog) < MaxCalls
    /\ dlog' = Append(dlog, LogEntry("describe_statement", statement_id, {"Id"}, PyErr("ClientError"), None))
    /\ apc' = "done"
    /\ aout' = Raised("ClientError")
    /\ UNCHANGED <<ain, waited, statement_id, status, message, rows>>
    /\ UNCHANGED <<connVars, decVars>>

\* the loop condition `waited < timeout` is false: control falls out of the loop
ApiLoopExit ==
    /\ apc = "poll"
    /\ ~LoopContinues(waited, ain)
    /\ apc' = "fetch"
    /\ UNCHANGED <<ain, waited, statement_id, status, message, dlog, aout, rows>>
    /\ UNCHANGED <<connVars, decVars>>

\* time.sleep(poll_interval); waited += poll_interval
\* (time.sleep raises ValueError on a negative argument)
ApiSleep ==
    /\ apc = "sleep"
    /\ IF ain.poll_interval < 0
         THEN /\ apc' = "done"
              /\ aout' = Raised("ValueError")
              /\ waited' = waited
         ELSE /\ apc' = "poll"
              /\ aout' = aout
              /\ waited' = waited + ain.poll_interval
    /\ UNCHANGED <<ain, statement_id, status, message, dlog, rows>>
    /\ UNCHANGED <<connVars, decVars>>

(***************************************************************************)
(* Result decoding.  A cell (a Python dict) is a sequence of <<key, value>>*)
(* pairs in insertion order; a record is a sequence of cells.              *)
(***************************************************************************)
HasKey(item, k) == \E i \in DOMAIN item : item[i][1] = k
ItemGet(item, k) ==
    IF HasKey(item, k)
      THEN item[CHOOSE i \in DOMAIN item : item[i][1] = k][2]
      ELSE None

\* a fault: the integer tag is looked at before the string tag
DecodeCellLongFirst(item) ==
    IF Len(item) = 0 THEN None
    ELSE IF HasKey(item, "longValue") THEN ItemGet(item, "longValue")
    ELSE IF HasKey(item, "stringValue") THEN ItemGet(item, "stringValue")
    ELSE IF HasKey(item, "doubleValue") THEN ItemGet(item, "doubleValue")
    ELSE IF HasKey(item, "booleanValue") THEN ItemGet(item, "booleanValue")
    ELSE IF HasKey(item, "isNull") /\ Truthy(ItemGet(item, "isNull")) THEN None
    ELSE item[1][2]

\* the if/elif chain that picks the value of one cell
DecodeCell(item) ==
    IF Len(item) = 0 THEN None
    ELSE IF HasKey(item, "stringValue") THEN ItemGet(item, "stringValue")
    ELSE IF HasKey(item, "longValue") THEN ItemGet(item, "longValue")
    ELSE IF HasKey(item, "doubleValue") THEN ItemGet(item, "doubleValue")
    ELSE IF HasKey(item, "booleanValue") THEN ItemGet(item, "booleanValue")
    ELSE IF HasKey(item, "isNull") /\ Truthy(ItemGet(item, "isNull")) THEN None
    ELSE item[1][2]

Min(a, b) == IF a < b THEN a ELSE b

\* for col, item in zip(columns, r): record[col] = value
\* (zip stops at the shorter one; a repeated column keeps its last value)
DecodeRecord(columns, r) ==
    LET n == Min(Len(columns), Len(r))
        cols == {columns[i] : i \in 1..n}
        last(c) == CHOOSE i \in 1..n : columns[i] = c /\ \A j \in 1..n : columns[j] = c => j <= i
    IN [c \in cols |-> DecodeCell(r[last(c)])]

\* the keys of that dict in the order it holds them: a key keeps the place of
\* its first assignment
RowKeys(columns, r) ==
    LET n == Min(Len(columns), Len(r))
        F[i \in 0..n] ==
            IF i = 0 THEN <<>>
            ELSE IF \E j \in 1..(i - 1) : columns[j] = columns[i]
              THEN F[i - 1]
              ELSE Append(F[i - 1], columns[i])
    IN F[n]

\* rows = [decoded record for r in result.get("Records", [])]
DecodeRows(result) == [k \in DOMAIN result.records |-> DecodeRecord(result.columns, result.records[k])]

\* result pages the backend may answer with
ResultPages ==
    { [columns |-> <<>>, records |-> <<>>],
      [columns |-> <<"test">>, records |-> << << << <<"longValue", PyInt(1)>> >> >> >>],
      [columns |-> <<"a", "b">>,
       records |-> << << << <<"stringValue", PyStr("x")>> >>, << <<"isNull", PyBool(TRUE)>> >> >> >>] }

\* result = get_statement_result(Id=statement_id); decode; return rows
ApiFetchOk ==
    /\ apc = "fetch"
    /\ \E page \in ResultPages :
          /\ dlog' = Append(dlog, LogEntry("get_statement_result", statement_id, {"Id"}, PyStr("page"), None))
          /\ rows' = DecodeRows(page)
    /\ apc' = "done"
    /\ aout' = Returned
    /\ UNCHANGED <<ain, waited, statement_id, status, message>>
    /\ UNCHANGED <<connVars, decVars>>

\* get_statement_result raises botocore ClientError: logged and re-raised
ApiFetchFail ==
    /\ apc = "fetch"
    /\ dlog' = Append(dlog, LogEntry("get_statement_result", statement_id, {"Id"}, PyErr("ClientError"), None))
    /\ apc' = "done"
    /\ aout' = Raised("ClientError")
    /\ UNCHANGED <<ain, waited, statement_id, status, message, rows>>
    /\ UNCHANGED <<connVars, decVars>>

NextApi ==
    \/ ApiCall
    \/ ApiValidate
    \/ ApiSubmitOk
    \/ ApiSubmitFail
    \/ ApiDescribe
    \/ ApiDescribeFail
    \/ ApiLoopExit
    \/ ApiSleep
    \/ ApiFetchOk
    \/ ApiFetchFail


(***************************************************************************)
(* Secrets Manager: get_secret.                                            *)
(***************************************************************************)
\* a dict with string keys, written as a function; the empty dict
EmptyDict == [k \in {} |-> None]
\* a nested dict value (the "ssl" entry of a secret)
PyDict(x) == [t |-> "dict", s |-> x, n |-> 0]

\* what json.loads does on the SecretString texts the vault answers with here:
\* ok is FALSE on JSONDecodeError; isdict tells a JSON object from another value
JsonObject(d) == [ok |-> TRUE, isdict |-> TRUE, d |-> d, v |-> None]
JsonValue(v) == [ok |-> TRUE, isdict |-> FALSE, d |-> EmptyDict, v |-> v]
JsonError == [ok |-> FALSE, isdict |-> FALSE, d |-> EmptyDict, v |-> None]

json_loads(text) ==
    CASE text = "{\"host\":\"h1\",\"port\":3307,\"username\":\"u1\",\"password\":\"p1\",\"dbname\":\"d1\"}" ->
            JsonObject([k \in {"host", "port", "username", "password", "dbname"} |->
                CASE k = "host" -> PyStr("h1") [] k = "port" -> PyInt(3307)
                  [] k = "username" -> PyStr("u1") [] k = "password" -> PyStr("p1")
                  [] k = "dbname" -> PyStr("d1")])
      [] text = "{\"endpoint\":\"e1\",\"user\":\"u2\",\"db\":\"d3\"}" ->
            JsonObject([k \in {"endpoint", "user", "db"} |->
                CASE k = "endpoint" -> PyStr("e1") [] k = "user" -> PyStr("u2")
                  [] k = "db" -> PyStr("d3")])
      [] text = "{\"url\":\"x1\",\"username\":\"u1\",\"database\":\"d2\",\"ssl\":{\"ca\":\"pem\"}}" ->
            JsonObject([k \in {"url", "username", "database", "ssl"} |->
                CASE k = "url" -> PyStr("x1") [] k = "username" -> PyStr("u1")
                  [] k = "database" -> PyStr("d2") [] k = "ssl" -> PyDict("ca")])
      [] text = "{\"hostname\":\"hn1\",\"user\":\"u2\",\"port\":\"3308\"}" ->
            JsonObject([k \in {"hostname", "user", "port"} |->
                CASE k = "hostname" -> PyStr("hn1") [] k = "user" -> PyStr("u2")
                  [] k = "port" -> PyStr("3308")])
      [] text = "{\"username\":\"u1\",\"password\":\"p1\"}" ->
            JsonObject([k \in {"username", "password"} |->
                CASE k = "username" -> PyStr("u1") [] k = "password" -> PyStr("p1")])
      [] text = "{\"host\":\"h1\"}" ->
            JsonObject([k \in {"host"} |-> PyStr("h1")])
      [] text = "{\"host\":\"\",\"username\":\"u1\"}" ->
            JsonObject([k \in {"host", "username"} |->
                CASE k = "host" -> PyStr("") [] k = "username" -> PyStr("u1")])
      [] text = "{\"host\":\"h1\",\"username\":\"u1\",\"port\":\"x\"}" ->
            JsonObject([k \in {"host", "username", "port"} |->
                CASE k = "host" -> PyStr("h1") [] k = "username" -> PyStr("u1")
                  [] k = "port" -> PyStr("x")])
      [] text = "5" -> JsonValue(PyInt(5))
      [] OTHER -> JsonError

SecretTexts ==
    { "{\"host\":\"h1\",\"port\":3307,\"username\":\"u1\",\"password\":\"p1\",\"dbname\":\"d1\"}",
      "{\"endpoint\":\"e1\",\"user\":\"u2\",\"db\":\"d3\"}",
      "{\"url\":\"x1\",\"username\":\"u1\",\"database\":\"d2\",\"ssl\":{\"ca\":\"pem\"}}",
      "{\"hostname\":\"hn1\",\"user\":\"u2\",\"port\":\"3308\"}",
      "{\"username\":\"u1\",\"password\":\"p1\"}",
      "{\"host\":\"h1\"}",
      "{\"host\":\"\",\"username\":\"u1\"}",
      "{\"host\":\"h1\",\"username\":\"u1\",\"port\":\"x\"}",
      "5",
      "plain-text",
      "" }

\* responses of get_secret_value: each of SecretString and SecretBinary is
\* present or missing (None)
VaultResponses ==
    [SecretString : {None} \cup {PyStr(x) : x \in SecretTexts},
     SecretBinary : {None, PyStr("bytes")}]

\* the value get_secret returns or the exception it raises
SecretDict(d) == [kind |-> "dict", d |-> d, v |-> None, err |-> ""]
SecretOther(v) == [kind |-> "value", d |-> EmptyDict, v |-> v, err |-> ""]
SecretRaise(e) == [kind |-> "raise", d |-> EmptyDict, v |-> None, err |-> e]
NoSecret == [kind |-> "none", d |-> EmptyDict, v |-> None, err |-> ""]

\* a fault: a response without any payload yields an empty mapping
get_secretEmptyOnNoPayload(response) ==
    LET secret_string == response.SecretString
        binary_secret == response.SecretBinary
    IN IF Truthy(secret_string)
         THEN LET parsed == json_loads(secret_string.s)
              IN IF parsed.ok
                   THEN IF parsed.isdict THEN SecretDict(parsed.d) ELSE SecretOther(parsed.v)
                   ELSE SecretDict([k \in {"secret"} |-> secret_string])
         ELSE IF Truthy(binary_secret)
                THEN SecretDict([k \in {"secret_binary"} |-> binary_secret])
                ELSE SecretDict(EmptyDict)

\* get_secret after get_secret_value has answered with response
get_secret(response) ==
    LET secret_string == response.SecretString
        binary_secret == response.SecretBinary
    IN IF Truthy(secret_string)
         THEN LET parsed == json_loads(secret_string.s)
              IN IF parsed.ok
                   THEN IF parsed.isdict THEN SecretDict(parsed.d) ELSE SecretOther(parsed.v)
                   ELSE SecretDict([k \in {"secret"} |-> secret_string])
         ELSE IF Truthy(binary_secret)
                THEN SecretDict([k \in {"secret_binary"} |-> binary_secret])
                ELSE SecretRaise("ValueError")

(***************************************************************************)
(* Connection parameters.                                                  *)
(***************************************************************************)
MySQLDefaultPort == 3306
RedshiftDefaultPort == 5439

\* int(x) of Python on the values that occur as a port
IntOf(v) ==
    CASE v.t = "int" -> [ok |-> TRUE, n |-> v.n, err |-> ""]
      [] v.t = "str" /\ v.s = "3308" -> [ok |-> TRUE, n |-> 3308, err |-> ""]
      [] v.t = "str" -> [ok |-> FALSE, n |-> 0, err |-> "ValueError"]
      [] OTHER -> [ok |-> FALSE, n |-> 0, err |-> "TypeError"]

Params(host, port, database, user, password, ssl) ==
    [host |-> host, port |-> port, database |-> database, user |-> user,
     password |-> password, ssl |-> ssl]
NoParams == Params(None, 0, None, None, None, None)

ParamsOk(p) == [ok |-> TRUE, p |-> p, err |-> ""]
ParamsRaise(e) == [ok |-> FALSE, p |-> NoParams, err |-> e]

\* host lookup of RdsMySQLService._params_from_secret
MySQLHost(d) == PyOr(PyOr(Get(d, "host"), Get(d, "hostname")), Get(d, "url"))
\* host lookup of RedshiftService.params_from_secret
RedshiftHost(d) == PyOr(PyOr(Get(d, "host"), Get(d, "endpoint")), Get(d, "hostname"))
\* user lookup of both
SecretUser(d) == PyOr(Get(d, "username"), Get(d, "user"))
MySQLDatabase(d) == PyOr(PyOr(Get(d, "dbname"), Get(d, "database")), Get(d, "db"))
RedshiftDatabase(d) == PyOr(Get(d, "dbname"), Get(d, "database"))

\* RdsMySQLService._params_from_secret, given what get_secret returned
\* (a value that is no dict has no .get: AttributeError)
MySQLParamsFromSecret(sec) ==
    IF sec.kind = "raise" THEN ParamsRaise(sec.err)
    ELSE IF sec.kind # "dict" THEN ParamsRaise("AttributeError")
    ELSE LET d == sec.d
             port == IntOf(GetDefault(d, "port", PyInt(MySQLDefaultPort)))
             ssl == IF "ssl" \in DOMAIN d /\ d["ssl"].t = "dict" THEN d["ssl"] ELSE None
         IN IF ~port.ok THEN ParamsRaise(port.err)
            ELSE ParamsOk(Params(MySQLHost(d), port.n, MySQLDatabase(d), SecretUser(d),
                                 Get(d, "password"), ssl))

\* RedshiftService.params_from_secret, given what get_secret returned
RedshiftParamsFromSecret(sec) ==
    IF sec.kind = "raise" THEN ParamsRaise(sec.err)
    ELSE IF sec.kind # "dict" THEN ParamsRaise("AttributeError")
    ELSE LET d == sec.d
             port == IntOf(GetDefault(d, "port", PyInt(RedshiftDefaultPort)))
         IN IF ~port.ok THEN ParamsRaise(port.err)
            ELSE ParamsOk(Params(RedshiftHost(d), port.n, RedshiftDatabase(d), SecretUser(d),
                                 Get(d, "password"), None))

ParamsFromSecret(backend, sec) ==
    IF backend = "mysql" THEN MySQLParamsFromSecret(sec) ELSE RedshiftParamsFromSecret(sec)

(***************************************************************************)
(* The scoped connectors RdsMySQLService.connect and                       *)
(* RedshiftService.connect_psycopg2, one call per caller.                  *)
(***************************************************************************)
Callers == {"t1", "t2"}
Backends == {"mysql", "redshift"}

DefaultPort(backend) == IF backend = "mysql" THEN MySQLDefaultPort ELSE RedshiftDefaultPort

NoConnArgs ==
    [backend |-> "mysql", secret_name |-> None, host |-> None, port |-> 0,
     port_given |-> FALSE, database |-> None, user |-> None, password |-> None]

\* arguments a caller may pass; an omitted port takes the signature's default
ConnArgs ==
    { [backend |-> b, secret_name |-> sn, host |-> h,
       port |-> IF pg THEN 3307 ELSE DefaultPort(b), port_given |-> pg,
       database |-> db, user |-> u, password |-> PyStr("pw0")] :
        b \in Backends, sn \in {None, PyStr(""), PyStr("sec")},
        h \in {None, PyStr(""), PyStr("h0")}, pg \in BOOLEAN,
        db \in {None, PyStr("db0")}, u \in {None, PyStr(""), PyStr("u0")} }

\* if secret_name:
UsesSecret(a) == Truthy(a.secret_name)

\* a fault: only the host is checked
ExplicitInvalidHostOnly(a) == ~Truthy(a.host)

\* if not host or not user: raise ValueError
ExplicitInvalid(a) == ~Truthy(a.host) \/ ~Truthy(a.user)

\* a fault: the port argument is not passed on and the default is used
ExplicitParamsDefaultPort(a) ==
    Params(a.host, DefaultPort(a.backend), a.database, a.user, a.password, None)

\* MySQLConnectionParams(host=host, ...) / RedshiftConnectionParams(host=host, ...)
\* (the warehouse connector takes no ssl argument)
ExplicitParams(a) == Params(a.host, a.port, a.database, a.user, a.password, None)

\* a fault: the close is not in a finally clause and is skipped when the block raises
RunsFinallyOnlyOnSuccess(exc) == exc = ""

\* try: yield conn / finally: the finally clause runs however the block ends
RunsFinally(exc) == TRUE

\* a fault: the close error is not caught and replaces the outcome of the block
ScopeExitCloseErrorEscapes(exc, closeErr) ==
    IF closeErr # "" THEN Raised(closeErr) ELSE IF exc # "" THEN Raised(exc) ELSE Returned

\* how the scope ends after conn.close(): `except Exception` swallows a close
\* error, then the block's exception (if any) continues to propagate
ScopeExit(exc, closeErr) == IF exc # "" THEN Raised(exc) ELSE Returned

NewSession(c, backend) ==
    [owner |-> c, backend |-> backend, closes |-> 0, closeErr |-> "", closers |-> {}]

\* conn.close() is called on the session by caller c
CloseSession(s, c, closeErr) ==
    [s EXCEPT !.closes = @ + 1, !.closeErr = closeErr, !.closers = @ \cup {c}]

\* a fault: the session is kept on the service object, so that a scope closes
\* the session opened last
SessionToCloseShared(c) == Len(sessions)

\* conn.close(): conn is the local variable of this generator
SessionToClose(c) == conn[c]

\* error codes of the ClientError that get_secret_value may raise
VaultErrors == {"ResourceNotFoundException", "AccessDeniedException", "ThrottlingException"}

\* a fault: the vault error is replaced by another error
VaultFailureWrapped(e) == Raised("SecretError")

\* except botocore.exceptions.ClientError as e: logger.exception(...); raise e
VaultFailure(e) == Raised(e)

\* errors the driver's connect may raise
OpenErrors == {"OperationalError"}

\* a fault: the connect error is caught and the scope goes on without a session
OpenFailureSwallowed(e) == Returned

\* the driver's connect raises inside the generator: nothing catches it
OpenFailure(e) == Raised(e)

\* one caller is about to use a connector; the Data API is not in use
InitConn ==
    /\ apc = "off"
    /\ ain = NoArgs
    /\ waited = 0
    /\ statement_id = ""
    /\ status = None
    /\ message = None
    /\ dlog = <<>>
    /\ aout = NoOutcome
    /\ rows = <<>>
    /\ cpc = [c \in Callers |-> IF c = "t1" THEN "idle" ELSE "off"]
    /\ cin = [c \in Callers |-> NoConnArgs]
    /\ secret = [c \in Callers |-> NoSecret]
    /\ params = [c \in Callers |-> NoParams]
    /\ conn = [c \in Callers |-> 0]
    /\ blockExc = [c \in Callers |-> ""]
    /\ cout = [c \in Callers |-> NoOutcome]
    /\ vaultLog = <<>>
    /\ connectLog = <<>>
    /\ sessions = <<>>
    /\ dpc = "off"
    /\ dpage = [columns |-> <<>>, records |-> <<>>]
    /\ drows = <<>>
    /\ dkeys = <<>>

\* `with service.connect(...) as conn:` is entered with some arguments
ConnCall(c) ==
    /\ cpc[c] = "idle"
    /\ \E a \in ConnArgs : cin' = [cin EXCEPT ![c] = a]
    /\ cpc' = [cpc EXCEPT ![c] = "entry"]
    /\ UNCHANGED <<secret, params, conn, blockExc, cout, vaultLog, connectLog, sessions>>
    /\ UNCHANGED <<apiVars, decVars>>

\* the branch on secret_name and the check of the explicit arguments
ConnEntry(c) ==
    /\ cpc[c] = "entry"
    /\ IF UsesSecret(cin[c])
         THEN /\ cpc' = [cpc EXCEPT ![c] = "vault"]
              /\ UNCHANGED <<params, cout>>
         ELSE IF ExplicitInvalid(cin[c])
           THEN /\ cpc' = [cpc EXCEPT ![c] = "done"]
                /\ cout' = [cout EXCEPT ![c] = Raised("ValueError")]
                /\ UNCHANGED params
           ELSE /\ cpc' = [cpc EXCEPT ![c] = "open"]
                /\ params' = [params EXCEPT ![c] = ExplicitParams(cin[c])]
                /\ UNCHANGED cout
    /\ UNCHANGED <<cin, secret, conn, blockExc, vaultLog, connectLog, sessions>>
    /\ UNCHANGED <<apiVars, decVars>>

\* get_secret_value answers; get_secret decodes; the parameters are built
ConnVaultOk(c) ==
    /\ cpc[c] = "vault"
    /\ \E response \in VaultResponses :
          LET sec == get_secret(response)
              pr == ParamsFromSecret(cin[c].backend, sec)
          IN /\ vaultLog' = Append(vaultLog, [caller |-> c, name |-> cin[c].secret_name,
                                              response |-> response, ok |-> TRUE, err |-> ""])
             /\ secret' = [secret EXCEPT ![c] = sec]
             /\ IF pr.ok
                  THEN /\ params' = [params EXCEPT ![c] = pr.p]
                       /\ cpc' = [cpc EXCEPT ![c] = "open"]
                       /\ UNCHANGED cout
                  ELSE /\ cout' = [cout EXCEPT ![c] = Raised(pr.err)]
                       /\ cpc' = [cpc EXCEPT ![c] = "done"]
                       /\ UNCHANGED params
    /\ UNCHANGED <<cin, conn, blockExc, connectLog, sessions>>
    /\ UNCHANGED <<apiVars, decVars>>

\* get_secret_value raises botocore ClientError: logged and re-raised
ConnVaultFail(c) ==
    /\ cpc[c] = "vault"
    /\ \E e \in VaultErrors :
          /\ vaultLog' = Append(vaultLog, [caller |-> c, name |-> cin[c].secret_name,
                                           response |-> [SecretString |-> None, SecretBinary |-> None],
                                           ok |-> FALSE, err |-> e])
          /\ cout' = [cout EXCEPT ![c] = VaultFailure(e)]
    /\ cpc' = [cpc EXCEPT ![c] = "done"]
    /\ UNCHANGED <<cin, secret, params, conn, blockExc, connectLog, sessions>>
    /\ UNCHANGED <<apiVars, decVars>>

\* pymysql.connect(...) / psycopg2.connect(...) returns a session; the
\* generator yields it
ConnOpenOk(c) ==
    /\ cpc[c] = "open"
    /\ connectLog' = Append(connectLog, [caller |-> c, backend |-> cin[c].backend,
                                         params |-> params[c], ok |-> TRUE, err |-> ""])
    /\ sessions' = Append(sessions, NewSession(c, cin[c].backend))
    /\ conn' = [conn EXCEPT ![c] = Len(sessions) + 1]
    /\ cpc' = [cpc EXCEPT ![c] = "block"]
    /\ UNCHANGED <<cin, secret, params, blockExc, cout, vaultLog>>
    /\ UNCHANGED <<apiVars, decVars>>

\* the driver's connect raises: nothing catches it
ConnOpenFail(c) ==
    /\ cpc[c] = "open"
    /\ \E e \in OpenErrors :
          /\ connectLog' = Append(connectLog, [caller |-> c, backend |-> cin[c].backend,
                                               params |-> params[c], ok |-> FALSE, err |-> e])
          /\ cout' = [cout EXCEPT ![c] = OpenFailure(e)]
    /\ cpc' = [cpc EXCEPT ![c] = "done"]
    /\ UNCHANGED <<cin, secret, params, conn, blockExc, vaultLog, sessions>>
    /\ UNCHANGED <<apiVars, decVars>>

\* the caller's block ends, normally or with an exception
ConnBlock(c) ==
    /\ cpc[c] = "block"
    /\ \E exc \in {"", "BlockError"} :
          /\ blockExc' = [blockExc EXCEPT ![c] = exc]
          /\ IF RunsFinally(exc)
               THEN /\ cpc' = [cpc EXCEPT ![c] = "close"]
                    /\ UNCHANGED cout
               ELSE /\ cpc' = [cpc EXCEPT ![c] = "done"]
                    /\ cout' = [cout EXCEPT ![c] = Raised(exc)]
    /\ UNCHANGED <<cin, secret, params, conn, vaultLog, connectLog, sessions>>
    /\ UNCHANGED <<apiVars, decVars>>

\* finally: conn.close(), which may raise; then the scope is left
ConnClose(c) ==
    /\ cpc[c] = "close"
    /\ \E closeErr \in {"", "CloseError"} :
          /\ sessions' = [sessions EXCEPT ![SessionToClose(c)] = CloseSession(@, c, closeErr)]
          /\ cout' = [cout EXCEPT ![c] = ScopeExit(blockExc[c], closeErr)]
    /\ cpc' = [cpc EXCEPT ![c] = "done"]
    /\ UNCHANGED <<cin, secret, params, conn, blockExc, vaultLog, connectLog>>
    /\ UNCHANGED <<apiVars, decVars>>

NextConn ==
    \E c \in Callers :
        \/ ConnCall(c)
        \/ ConnEntry(c)
        \/ ConnVaultOk(c)
        \/ ConnVaultFail(c)
        \/ ConnOpenOk(c)
        \/ ConnOpenFail(c)
        \/ ConnBlock(c)
        \/ ConnClose(c)

SpecConn == InitConn /\ [][NextConn]_vars

(***************************************************************************)
(* Two callers use the connectors of one service object at the same time.  *)
(* Each `with` statement runs its own generator with its own local         *)
(* variables; their steps interleave.                                      *)
(***************************************************************************)
\* arguments of the concurrent callers: a secret name, or a valid explicit set
ConcArgs ==
    { [backend |-> b, secret_name |-> sn, host |-> IF sn = None THEN PyStr("h0") ELSE None,
       port |-> DefaultPort(b), port_given |-> FALSE, database |-> None,
       user |-> IF sn = None THEN PyStr("u0") ELSE None, password |-> PyStr("pw0")] :
        b \in Backends, sn \in {None, PyStr("sec")} }

InitConc ==
    /\ cpc = [c \in Callers |-> "idle"]
    /\ cin = [c \in Callers |-> NoConnArgs]
    /\ secret = [c \in Callers |-> NoSecret]
    /\ params = [c \in Callers |-> NoParams]
    /\ conn = [c \in Callers |-> 0]
    /\ blockExc = [c \in Callers |-> ""]
    /\ cout = [c \in Callers |-> NoOutcome]
    /\ vaultLog = <<>>
    /\ connectLog = <<>>
    /\ sessions = <<>>
    /\ apc = "off"
    /\ ain = NoArgs
    /\ waited = 0
    /\ statement_id = ""
    /\ status = None
    /\ message = None
    /\ dlog = <<>>
    /\ aout = NoOutcome
    /\ rows = <<>>
    /\ dpc = "off"
    /\ dpage = [columns |-> <<>>, records |-> <<>>]
    /\ drows = <<>>
    /\ dkeys = <<>>

\* a caller enters `with service.connect(...) as conn:`
ConcCall(c) ==
    /\ cpc[c] = "idle"
    /\ \E a \in ConcArgs : cin' = [cin EXCEPT ![c] = a]
    /\ cpc' = [cpc EXCEPT ![c] = "entry"]
    /\ UNCHANGED <<secret, params, conn, blockExc, cout, vaultLog, connectLog, sessions>>
    /\ UNCHANGED <<apiVars, decVars>>

NextConc ==
    \E c \in Callers :
        \/ ConcCall(c)
        \/ ConnEntry(c)
        \/ ConnVaultOk(c)
        \/ ConnVaultFail(c)
        \/ ConnOpenOk(c)
        \/ ConnOpenFail(c)
        \/ ConnBlock(c)
        \/ ConnClose(c)

SpecConc == InitConc /\ [][NextConc]_vars

(***************************************************************************)
(* The decoding loop of execute_query_data_api (lines 287-314) on its own, *)
(* applied to result pages drawn from a bounded set.                       *)
(***************************************************************************)
CellTags == {"stringValue", "longValue", "doubleValue", "booleanValue", "isNull", "arrayValue"}

\* values a tag may carry in a response
TagValues(tag) ==
    CASE tag = "stringValue" -> {PyStr("x"), PyStr("")}
      [] tag = "longValue" -> {PyInt(1)}
      [] tag = "doubleValue" -> {PyFloat("2.5")}
      [] tag = "booleanValue" -> {PyBool(FALSE)}
      [] tag = "isNull" -> {PyBool(TRUE), PyBool(FALSE)}
      [] OTHER -> {PyStr("raw")}

TagPairs == UNION {{<<tag, v>> : v \in TagValues(tag)} : tag \in CellTags}

\* every cell of at most MaxTags tags: a dict holds a key once
Cells ==
    {c \in UNION {[1..n -> TagPairs] : n \in 0..MaxTags} :
        \A i, j \in DOMAIN c : c[i][1] = c[j][1] => i = j}

\* column metadata of at most MaxColumns names, a name possibly repeated
ColumnLists == UNION {[1..n -> {"a", "b"}] : n \in 0..MaxColumns}

\* pages of at most MaxRecords records, each of 0 to MaxColumns + 1 cells (fewer
\* cells than columns, as many, or more); cell i of record k carries the
\* integer 10 * k + i, which tells where a decoded value came from
ShapePages ==
    { [columns |-> cols,
       records |-> [k \in DOMAIN lens |->
                       [i \in 1..lens[k] |-> << <<"longValue", PyInt(10 * k + i)>> >>]]] :
        cols \in ColumnLists,
        lens \in UNION {[1..m -> 0..(MaxColumns + 1)] : m \in 0..MaxRecords} }

\* the pages decoded: one column and one record of one cell, for every cell,
\* the pages of ResultPages, and the pages of ShapePages
DecodePages ==
    {[columns |-> <<"a">>, records |-> << <<c>> >>] : c \in Cells} \cup ResultPages \cup ShapePages

InitDecode ==
    /\ dpc = "start"
    /\ dpage \in DecodePages
    /\ drows = <<>>
    /\ dkeys = <<>>
    /\ apc = "off"
    /\ ain = NoArgs
    /\ waited = 0
    /\ statement_id = ""
    /\ status = None
    /\ message = None
    /\ dlog = <<>>
    /\ aout = NoOutcome
    /\ rows = <<>>
    /\ cpc = [c \in Callers |-> "off"]
    /\ cin = [c \in Callers |-> NoConnArgs]
    /\ secret = [c \in Callers |-> NoSecret]
    /\ params = [c \in Callers |-> NoParams]
    /\ conn = [c \in Callers |-> 0]
    /\ blockExc = [c \in Callers |-> ""]
    /\ cout = [c \in Callers |-> NoOutcome]
    /\ vaultLog = <<>>
    /\ connectLog = <<>>
    /\ sessions = <<>>

\* columns = [...]; rows = []; for r in result.get("Records", []): ...; return rows
DecodePage ==
    /\ dpc = "start"
    /\ drows' = DecodeRows(dpage)
    /\ dkeys' = [k \in DOMAIN dpage.records |-> RowKeys(dpage.columns, dpage.records[k])]
    /\ dpc' = "done"
    /\ UNCHANGED dpage
    /\ UNCHANGED <<apiVars, connVars>>

NextDecode == DecodePage

SpecDecode == InitDecode /\ [][NextDecode]_vars

\* the state in which execute_query_data_api is about to be called; no
\* connector is in use
InitApi ==
    /\ apc = "idle"
    /\ ain = NoArgs
    /\ waited = 0
    /\ statement_id = ""
    /\ status = None
    /\ message = None
    /\ dlog = <<>>
    /\ aout = NoOutcome
    /\ rows = <<>>
    /\ cpc = [c \in Callers |-> "off"]
    /\ cin = [c \in Callers |-> NoConnArgs]
    /\ secret = [c \in Callers |-> NoSecret]
    /\ params = [c \in Callers |-> NoParams]
    /\ conn = [c \in Callers |-> 0]
    /\ blockExc = [c \in Callers |-> ""]
    /\ cout = [c \in Callers |-> NoOutcome]
    /\ vaultLog = <<>>
    /\ connectLog = <<>>
    /\ sessions = <<>>
    /\ dpc = "off"
    /\ dpage = [columns |-> <<>>, records |-> <<>>]
    /\ drows = <<>>
    /\ dkeys = <<>>

SpecApi == InitApi /\ [][NextApi]_vars

(***************************************************************************)
(* Properties of execute_query_data_api.                                   *)
(***************************************************************************)
(***************************************************************************)
(* The polling loop left to run for as long as it runs.  The call log      *)
(* keeps its first MaxCalls entries; describe_statement calls made after   *)
(* that still happen but are no longer written down, so a loop that        *)
(* repeats the same iteration for ever is a cycle of states.               *)
(***************************************************************************)
Logged(log, entry) == IF Len(log) < MaxCalls THEN Append(log, entry) ELSE log

\* The caller invokes execute_query_data_api with one target, wait=True and
\* a poll_interval that time.sleep accepts.
PollCall ==
    /\ apc = "idle"
    /\ \E p \in 0..MaxPollInterval, t \in -1..MaxTimeout :
          ain' = [cluster_identifier |-> PyStr("target-1"), workgroup_name |-> None,
                  wait |-> TRUE, poll_interval |-> p, timeout |-> t]
    /\ apc' = "validate"
    /\ UNCHANGED <<waited, statement_id, status, message, dlog, aout, rows>>
    /\ UNCHANGED <<connVars, decVars>>

\* while waited < timeout: describe = describe_statement(Id=statement_id);
\* status = describe.get("Status"); FINISHED breaks, a failure status raises
PollDescribe ==
    /\ apc = "poll"
    /\ LoopContinues(waited, ain)
    /\ \E st \in BackendStatuses, msg \in BackendErrors :
          /\ dlog' = Logged(dlog, LogEntry("describe_statement", statement_id, {"Id"}, st, msg))
          /\ status' = st
          /\ message' = msg
          /\ IF IsFinished(st)
               THEN /\ apc' = "fetch"
                    /\ aout' = aout
               ELSE IF IsFailureStatus(st)
                 THEN /\ apc' = "done"
                      /\ aout' = StatementError(st, msg)
                 ELSE /\ apc' = "sleep"
                      /\ aout' = aout
    /\ UNCHANGED <<ain, waited, statement_id, rows>>
    /\ UNCHANGED <<connVars, decVars>>

\* describe_statement raises: nothing catches it inside the loop
PollDescribeFail ==
    /\ apc = "poll"
    /\ LoopContinues(waited, ain)
    /\ dlog' = Logged(dlog, LogEntry("describe_statement", statement_id, {"Id"}, PyErr("ClientError"), None))
    /\ apc' = "done"
    /\ aout' = Raised("ClientError")
    /\ UNCHANGED <<ain, waited, statement_id, status, message, rows>>
    /\ UNCHANGED <<connVars, decVars>>

NextPoll ==
    \/ PollCall
    \/ ApiValidate
    \/ ApiSubmitOk
    \/ ApiSubmitFail
    \/ PollDescribe
    \/ PollDescribeFail
    \/ ApiLoopExit
    \/ ApiSleep
    \/ ApiFetchOk
    \/ ApiFetchFail

\* the calling thread keeps running: a step that can be taken is taken, and
\* every call on the backend answers or raises
SpecPoll == InitApi /\ [][NextPoll]_vars /\ WF_vars(NextPoll)

Submitted == \E e \in ExecuteEntries : dlog[e].ret.t # "error"
NonTerminal(st) ==
    st \notin {PyStr("FINISHED"), PyStr("ABORTED"), PyStr("FAILED"), PyStr("TIMED_OUT")}

\* the polling loop ran at least once and ended because waited reached timeout,
\* every poll having answered a non-terminal status
TimedOutLocally ==
    /\ Submitted
    /\ ain.wait
    /\ DescribeEntries # {}
    /\ \A e \in DescribeEntries : dlog[e].ret.t # "error" /\ NonTerminal(dlog[e].ret)
    /\ waited >= ain.timeout

\* C1: when every poll answers a non-terminal status until the waited time
\* reaches timeout, the call ends with a LocalTimeout error and
\* get_statement_result is never called.
C1_LocalTimeoutRaised ==
    (apc = "done" /\ TimedOutLocally) =>
        /\ aout.kind = "raise"
        /\ aout.err = "LocalTimeout"
        /\ ResultEntries = {}

\* C2: every get_statement_result call for an id comes after a
\* describe_statement call for that id that answered FINISHED.
C2_FetchOnlyAfterFinished ==
    \A e \in ResultEntries :
        \E d \in DescribeEntries :
            /\ d < e
            /\ dlog[d].id = dlog[e].id
            /\ dlog[d].ret = PyStr("FINISHED")

Supplied(v) == Truthy(v)

\* C8: with neither or both of cluster_identifier and workgroup_name supplied
\* the call fails with a validation error and execute_statement is never called.
C8_ExactlyOneTarget ==
    (apc \notin {"idle", "validate"}
        /\ Supplied(ain.cluster_identifier) = Supplied(ain.workgroup_name)) =>
        /\ apc = "done"
        /\ aout = Raised("ValueError")
        /\ ExecuteEntries = {}

\* C9: when a poll answers ABORTED, FAILED or TIMED_OUT the call ends with the
\* statement-failed error carrying that status and the answer's Error, and
\* get_statement_result is never called.
C9_FailureStatusRaises ==
    \A e \in DescribeEntries :
        dlog[e].ret \in {PyStr("ABORTED"), PyStr("FAILED"), PyStr("TIMED_OUT")} =>
            /\ apc = "done"
            /\ aout.kind = "raise"
            /\ aout.err = "RuntimeError"
            /\ aout.status = dlog[e].ret
            /\ aout.message = dlog[e].error
            /\ ResultEntries = {}

C9_Witness ==
    /\ Cardinality(DescribeEntries) >= 2
    /\ \E e \in DescribeEntries :
          dlog[e].ret = PyStr("TIMED_OUT") /\ dlog[e].error = PyStr("boom")

\* C10: with wait false the call returns an empty sequence right after a
\* successful execute_statement, with no describe_statement and no
\* get_statement_result call.
C10_FireAndForget ==
    (~ain.wait /\ Submitted) =>
        /\ apc = "done"
        /\ aout = Returned
        /\ rows = <<>>
        /\ DescribeEntries = {}
        /\ ResultEntries = {}

C10_Witness == apc = "done" /\ ~ain.wait /\ Submitted /\ statement_id = "id-2"

(***************************************************************************)
(* Properties of the scoped connectors.                                    *)
(***************************************************************************)
Active == {c \in Callers : cpc[c] # "off"}
VaultCallsOf(c) == {i \in DOMAIN vaultLog : vaultLog[i].caller = c}
ConnectCallsOf(c) == {i \in DOMAIN connectLog : connectLog[i].caller = c}

\* C3: once the session is open, close() is called on it exactly once on
\* every exit path of the caller's block, for both connectors: no close
\* before the scope is left, one close when it has been left.
C3_ClosedExactlyOnce ==
    \A c \in Active :
        conn[c] # 0 =>
            /\ sessions[conn[c]].owner = c
            /\ sessions[conn[c]].closes = IF cpc[c] = "done" THEN 1 ELSE 0

C3_Witness ==
    /\ cpc["t1"] = "done"
    /\ cin["t1"].backend = "redshift"
    /\ conn["t1"] # 0
    /\ blockExc["t1"] = "BlockError"
    /\ sessions[conn["t1"]].closes = 1

\* C4: when close() fails the failure is swallowed: the scope exits with
\* exactly the block's error E when the block raised, and normally otherwise.
C4_CloseFailureSwallowed ==
    \A c \in Active :
        (cpc[c] = "done" /\ conn[c] # 0 /\ sessions[conn[c]].closeErr # "") =>
            cout[c] = IF blockExc[c] # "" THEN Raised(blockExc[c]) ELSE Returned

C4_Witness ==
    /\ cpc["t1"] = "done"
    /\ conn["t1"] # 0
    /\ sessions[conn["t1"]].closeErr = "CloseError"
    /\ blockExc["t1"] = "BlockError"
    /\ cout["t1"] = Raised("BlockError")

\* the call names a secret and also gives an explicit host and user
SuppliesBoth(a) == Truthy(a.secret_name) /\ Truthy(a.host) /\ Truthy(a.user)
\* the call names no secret and gives no explicit parameter
SuppliesNeither(a) ==
    /\ ~Truthy(a.secret_name)
    /\ ~Truthy(a.host) /\ ~Truthy(a.user) /\ ~Truthy(a.database) /\ ~a.port_given

\* C5: a call that supplies both a secret name and explicit connection
\* parameters, or neither, fails with a validation error, with no vault fetch
\* and no session open.
C5_BothOrNeitherRejected ==
    \A c \in Active :
        (cpc[c] \notin {"idle", "entry"}
            /\ (SuppliesBoth(cin[c]) \/ SuppliesNeither(cin[c]))) =>
            /\ cpc[c] = "done"
            /\ cout[c] = Raised("ValueError")
            /\ VaultCallsOf(c) = {}
            /\ ConnectCallsOf(c) = {}

\* the secret is a mapping from which host or user cannot be determined
HostKeys(backend) ==
    IF backend = "mysql" THEN {"host", "hostname", "url"} ELSE {"host", "endpoint", "hostname"}
UserKeys == {"username", "user"}
LacksHostOrUser(backend, sec) ==
    /\ sec.kind = "dict"
    /\ \/ \A k \in HostKeys(backend) : ~Truthy(Get(sec.d, k))
       \/ \A k \in UserKeys : ~Truthy(Get(sec.d, k))

\* C6: when no host fallback key or no user fallback key of the secret yields
\* a non-empty value, resolution fails with IncompleteCredential instead of
\* returning a parameter record.
C6_IncompleteSecretRejected ==
    \A c \in Active :
        LacksHostOrUser(cin[c].backend, secret[c]) =>
            /\ cpc[c] = "done"
            /\ cout[c] = Raised("IncompleteCredential")
            /\ params[c] = NoParams

\* C7: no session open is attempted with an empty or absent host or user.
C7_OpenNeedsHostAndUser ==
    \A i \in DOMAIN connectLog :
        Truthy(connectLog[i].params.host) /\ Truthy(connectLog[i].params.user)

(***************************************************************************)
(* Properties of the result decoding.                                      *)
(***************************************************************************)
TagPresent(cell, tag) == \E i \in DOMAIN cell : cell[i][1] = tag
TagValue(cell, tag) == cell[CHOOSE i \in DOMAIN cell : cell[i][1] = tag][2]
TagOrder == <<"stringValue", "longValue", "doubleValue", "booleanValue">>

\* the value the decoding policy gives a cell: the first tag present in the
\* order string, integer, float, boolean; else null for a null marker; else
\* the value of the first tag present; null for a cell without tags
PolicyValue(cell) ==
    IF \E k \in DOMAIN TagOrder : TagPresent(cell, TagOrder[k])
      THEN LET k == CHOOSE k \in DOMAIN TagOrder :
                      /\ TagPresent(cell, TagOrder[k])
                      /\ \A j \in 1..(k - 1) : ~TagPresent(cell, TagOrder[j])
           IN TagValue(cell, TagOrder[k])
      ELSE IF TagPresent(cell, "isNull") /\ TagValue(cell, "isNull") = PyBool(TRUE)
        THEN None
        ELSE IF cell # <<>> THEN cell[1][2] ELSE None

ExamplePage ==
    [columns |-> <<"a", "b">>,
     records |-> << << << <<"stringValue", PyStr("x")>> >>, << <<"isNull", PyBool(TRUE)>> >> >> >>]

\* C11: every cell decodes to the value of the first tag present in the order
\* string, integer, float, boolean, then null for a null marker, and otherwise
\* to the value of its first tag, without failing; the record
\* [{stringValue: x}, {isNull: true}] under columns [a, b] gives {a: x, b: null}.
C11_CellDecoding ==
    dpc = "done" =>
        /\ Len(drows) = Len(dpage.records)
        /\ \A k \in DOMAIN dpage.records :
              \A i \in DOMAIN dpage.records[k] :
                  (i \in DOMAIN dpage.columns
                      /\ \A j \in DOMAIN dpage.columns : dpage.columns[j] = dpage.columns[i] => j = i) =>
                      /\ dpage.columns[i] \in DOMAIN drows[k]
                      /\ drows[k][dpage.columns[i]] = PolicyValue(dpage.records[k][i])
                      /\ drows[k][dpage.columns[i]].t # "error"
        /\ dpage = ExamplePage =>
              drows = << [c \in {"a", "b"} |-> IF c = "a" THEN PyStr("x") ELSE None] >>

\* a cell with an unrecognized tag first, then the null marker set to false,
\* has been decoded to the value of the unrecognized tag
C11_Witness ==
    /\ dpc = "done"
    /\ dpage.records = << << << <<"arrayValue", PyStr("raw")>>, <<"isNull", PyBool(FALSE)>> >> >> >>
    /\ drows = << [c \in {"a"} |-> PyStr("raw")] >>

(***************************************************************************)
(* Properties of get_secret, as the connectors call it.                    *)
(***************************************************************************)
Answered == {i \in DOMAIN vaultLog : vaultLog[i].ok}
Refused == {i \in DOMAIN vaultLog : ~vaultLog[i].ok}
HasString(response) == response.SecretString.t = "str" /\ response.SecretString.s # ""
HasBinary(response) == response.SecretBinary # None

\* C12: for every string payload get_secret returns a mapping: the parsed
\* structure when the string parses, {"secret": raw} when it does not.
C12_StringPayloadGivesMapping ==
    \A i \in Answered :
        HasString(vaultLog[i].response) =>
            /\ secret[vaultLog[i].caller].kind = "dict"
            /\ vaultLog[i].response.SecretString.s = "plain-text" =>
                  secret[vaultLog[i].caller].d =
                      [k \in {"secret"} |-> vaultLog[i].response.SecretString]

\* C13: without a string payload get_secret returns {"secret_binary": bytes}
\* when a binary payload is present, and fails with the missing-payload error
\* when there is none, returning no mapping.
C13_BinaryOrMissingPayload ==
    \A i \in Answered :
        vaultLog[i].response.SecretString = None =>
            LET c == vaultLog[i].caller
            IN IF HasBinary(vaultLog[i].response)
                 THEN /\ secret[c].kind = "dict"
                      /\ secret[c].d = [k \in {"secret_binary"} |-> vaultLog[i].response.SecretBinary]
                 ELSE /\ secret[c].kind = "raise"
                      /\ secret[c].err = "ValueError"
                      /\ cpc[c] = "done"
                      /\ cout[c] = Raised("ValueError")
                      /\ ConnectCallsOf(c) = {}

C13_Witness ==
    /\ cpc["t1"] = "done"
    /\ cin["t1"].backend = "redshift"
    /\ \E i \in Answered :
          /\ vaultLog[i].response = [SecretString |-> None, SecretBinary |-> None]
          /\ vaultLog[i].caller = "t1"
    /\ cout["t1"] = Raised("ValueError")

\* C14: a response carrying both a string payload and a binary payload, or
\* neither, is malformed: get_secret raises and yields no secret.
C14_ExactlyOnePayload ==
    \A i \in Answered :
        (HasString(vaultLog[i].response) = HasBinary(vaultLog[i].response)) =>
            secret[vaultLog[i].caller].kind = "raise"

\* C15: on a vault-side failure exactly one get_secret_value request is made,
\* the same error reaches the caller, and no session open is attempted.
C15_VaultFailurePropagates ==
    \A i \in Refused :
        LET c == vaultLog[i].caller
        IN /\ Cardinality(VaultCallsOf(c)) = 1
           /\ cpc[c] = "done"
           /\ cout[c] = Raised(vaultLog[i].err)
           /\ ConnectCallsOf(c) = {}
           /\ conn[c] = 0

C15_Witness ==
    /\ \E i \in Refused : vaultLog[i].err = "ThrottlingException" /\ vaultLog[i].caller = "t1"
    /\ cout["t1"] = Raised("ThrottlingException")
    /\ cin["t1"].backend = "mysql"

(***************************************************************************)
(* Properties of the connection parameters.                                *)
(***************************************************************************)
\* the caller's parameters have been built from a secret mapping
ResolvedFromSecret(c) ==
    /\ secret[c].kind = "dict"
    /\ cpc[c] \in {"open", "block", "close"} \/ ConnectCallsOf(c) # {}

SomeNonEmpty(d, keys) == \E k \in DOMAIN keys : Truthy(Get(d, keys[k]))
FirstNonEmpty(d, keys) ==
    LET k == CHOOSE k \in DOMAIN keys :
                /\ Truthy(Get(d, keys[k]))
                /\ \A j \in 1..(k - 1) : ~Truthy(Get(d, keys[j]))
    IN Get(d, keys[k])

\* a field follows the fallback keys: it is the first non-empty value among them
FollowsFallback(d, keys, value) == SomeNonEmpty(d, keys) => value = FirstNonEmpty(d, keys)

\* C16: for both backend families host is the first non-empty value among
\* host, hostname, endpoint; user among username, user; database among
\* dbname, database, db.
C16_FallbackKeys ==
    \A c \in Active :
        ResolvedFromSecret(c) =>
            /\ FollowsFallback(secret[c].d, <<"host", "hostname", "endpoint">>, params[c].host)
            /\ FollowsFallback(secret[c].d, <<"username", "user">>, params[c].user)
            /\ FollowsFallback(secret[c].d, <<"dbname", "database", "db">>, params[c].database)

\* the call names no secret and gives a host and a user
ValidExplicit(a) == ~Truthy(a.secret_name) /\ Truthy(a.host) /\ Truthy(a.user)

\* C17: for every valid explicit parameter set the session is opened with the
\* supplied host, port, database, user and password, the backend default port
\* (3306 row store, 5439 warehouse) standing in for an omitted port only, and
\* the vault is never contacted.
C17_ExplicitParamsUnchanged ==
    \A c \in Active :
        (cpc[c] \notin {"idle", "entry"} /\ ValidExplicit(cin[c])) =>
            /\ VaultCallsOf(c) = {}
            /\ cout[c] # Raised("ValueError")
            /\ params[c].host = cin[c].host
            /\ params[c].database = cin[c].database
            /\ params[c].user = cin[c].user
            /\ params[c].password = cin[c].password
            /\ params[c].port =
                  IF cin[c].port_given THEN cin[c].port
                  ELSE IF cin[c].backend = "mysql" THEN 3306 ELSE 5439
            /\ \A i \in ConnectCallsOf(c) : connectLog[i].params = params[c]

C17_Witness ==
    /\ ValidExplicit(cin["t1"])
    /\ cin["t1"].backend = "redshift"
    /\ cin["t1"].port_given
    /\ \E i \in ConnectCallsOf("t1") : connectLog[i].params.port = 3307 /\ connectLog[i].ok

\* C18: an explicit parameter set with host or user empty or absent, and no
\* secret name, fails with a validation error before any I/O: no vault fetch,
\* no session open, and the caller's block is never entered.
C18_InvalidExplicitRejected ==
    \A c \in Active :
        (cpc[c] \notin {"idle", "entry"}
            /\ ~Truthy(cin[c].secret_name)
            /\ (~Truthy(cin[c].host) \/ ~Truthy(cin[c].user))) =>
            /\ cpc[c] = "done"
            /\ cout[c] = Raised("ValueError")
            /\ VaultCallsOf(c) = {}
            /\ ConnectCallsOf(c) = {}
            /\ conn[c] = 0
            /\ blockExc[c] = ""

C18_Witness ==
    /\ cpc["t1"] = "done"
    /\ cin["t1"].secret_name = None
    /\ cin["t1"].host = PyStr("h0")
    /\ cin["t1"].user = PyStr("")
    /\ cout["t1"] = Raised("ValueError")

\* C19: when opening the session fails the open is attempted exactly once, the
\* failure reaches the caller, the caller's block is never entered and close()
\* is never called on any session.
C19_OpenFailurePropagates ==
    \A i \in DOMAIN connectLog :
        ~connectLog[i].ok =>
            LET c == connectLog[i].caller
            IN /\ Cardinality(ConnectCallsOf(c)) = 1
               /\ cpc[c] = "done"
               /\ cout[c] = Raised(connectLog[i].err)
               /\ conn[c] = 0
               /\ blockExc[c] = ""
               /\ \A k \in DOMAIN sessions : sessions[k].owner # c /\ c \notin sessions[k].closers

C19_Witness ==
    /\ cpc["t1"] = "done"
    /\ cin["t1"].backend = "mysql"
    /\ UsesSecret(cin["t1"])
    /\ \E i \in ConnectCallsOf("t1") : ~connectLog[i].ok
    /\ cout["t1"] = Raised("OperationalError")

(***************************************************************************)
(* Properties of concurrent scoped acquisitions.                           *)
(***************************************************************************)
\* C20: under every interleaving of concurrent scoped acquisitions each scope
\* opens and receives its own session, each session is closed exactly once
\* and only by the scope that opened it, and no session is closed while its
\* owning scope's block is still running.
C20_SessionsNotShared ==
    /\ \A c \in Callers :
          conn[c] # 0 =>
              /\ sessions[conn[c]].owner = c
              /\ sessions[conn[c]].closers \subseteq {c}
              /\ sessions[conn[c]].closes = IF cpc[c] = "done" THEN 1 ELSE 0
    /\ \A c, d \in Callers : (c # d /\ conn[c] # 0) => conn[c] # conn[d]
    /\ \A k \in DOMAIN sessions : conn[sessions[k].owner] = k

\* the second scope has opened and closed its session while the block of the
\* first scope is still running
C20_Witness ==
    /\ cpc["t1"] = "block"
    /\ cpc["t2"] = "done"
    /\ conn["t1"] = 1
    /\ conn["t2"] = 2
    /\ sessions[2].closes = 1
    /\ sessions[1].closes = 0
    /\ cin["t1"].backend = cin["t2"].backend

(***************************************************************************)
(* Properties of the polling loop.                                         *)
(***************************************************************************)
\* C21: for every backend status sequence and every poll_interval >= 0 and
\* timeout, the polling phase terminates: once the loop is entered the call
\* eventually leaves it (to fetch, return or raise).
C21_PollingTerminates == (apc = "poll") ~> (apc \in {"fetch", "done"})

\* the statement was submitted, the call waits with a positive poll_interval
\* and no describe_statement call so far has answered a terminal status
NeverTerminalRun ==
    /\ Submitted
    /\ ain.wait
    /\ ain.poll_interval > 0
    /\ \A e \in DescribeEntries : dlog[e].ret.t # "error" /\ NonTerminal(dlog[e].ret)

\* ceil(t / p) for p > 0, and 0 when t <= 0
CeilDiv(t, p) == IF t <= 0 THEN 0 ELSE (t + p - 1) \div p

Answers(e) == dlog[e].ret.t # "error"

\* C23: once a describe_statement call has answered FINISHED, ABORTED, FAILED
\* or TIMED_OUT no further describe_statement call is made; any other answer
\* (an unknown status, or none) is treated as non-terminal: the call sleeps
\* and goes back to the loop condition, neither breaking nor raising.
C23_TerminalStopsPolling ==
    /\ \A d \in DescribeEntries :
          (Answers(d) /\ ~NonTerminal(dlog[d].ret)) =>
              /\ \A e \in DescribeEntries : e <= d
              /\ apc \in {"fetch", "done"}
    /\ (/\ Len(dlog) \in DescribeEntries
        /\ Answers(Len(dlog))
        /\ NonTerminal(dlog[Len(dlog)].ret)
        /\ ain.poll_interval >= 0) =>
              /\ aout = NoOutcome
              /\ \/ apc = "sleep"
                 \/ apc = "poll"
                 \/ apc = "fetch" /\ waited >= ain.timeout

\* a missing status and an unknown one were polled through, then FINISHED
\* ended the polling
C23_Witness ==
    /\ apc = "done"
    /\ \E d1, d2, d3 \in DescribeEntries :
          /\ d1 < d2
          /\ d2 < d3
          /\ {dlog[d1].ret, dlog[d2].ret} = {None, PyStr("STARTED")}
          /\ dlog[d3].ret = PyStr("FINISHED")

(***************************************************************************)
(* Properties of the calls one execute_query_data_api call makes.          *)
(***************************************************************************)
\* C24: one call issues at most one execute_statement, every
\* describe_statement and get_statement_result call names the id that the
\* submission returned, and a failed submission propagates its error with no
\* describe_statement or get_statement_result call made.
C24_OneSubmission ==
    /\ Cardinality(ExecuteEntries) <= 1
    /\ \A e \in DescribeEntries \cup ResultEntries :
          \E x \in ExecuteEntries : x < e /\ dlog[x].ret = PyStr(dlog[e].id)
    /\ \A x \in ExecuteEntries :
          dlog[x].ret.t = "error" =>
              /\ apc = "done"
              /\ aout = Raised("ClientError")
              /\ DescribeEntries \cup ResultEntries = {}

\* a call that submitted once, polled twice and fetched, all under one id
C24_Witness ==
    /\ apc = "done"
    /\ Cardinality(ExecuteEntries) = 1
    /\ Cardinality(DescribeEntries) >= 2
    /\ ResultEntries # {}
    /\ \A e \in DOMAIN dlog : dlog[e].id = "id-2"

(***************************************************************************)
(* Properties of the rows a result page decodes to.                        *)
(***************************************************************************)
\* the column names of the metadata in column order, a repeated name once
DistinctNames(columns) ==
    LET F[i \in 0..Len(columns)] ==
            IF i = 0 THEN <<>>
            ELSE IF \E j \in 1..(i - 1) : columns[j] = columns[i]
              THEN F[i - 1]
              ELSE Append(F[i - 1], columns[i])
    IN F[Len(columns)]

TestPage ==
    [columns |-> <<"test">>, records |-> << << << <<"longValue", PyInt(1)>> >> >> >>]

\* C25: the decoded result has exactly one Row per record, in record order,
\* and every Row has exactly one entry for each column name of the column
\* metadata, in column order, whatever the number of cells of the record;
\* the page with one row {test: 1} gives exactly [{test: 1}].
C25_OneRowPerRecord ==
    dpc = "done" =>
        /\ Len(drows) = Len(dpage.records)
        /\ \A k \in DOMAIN dpage.records :
              /\ DOMAIN drows[k] = {dpage.columns[i] : i \in DOMAIN dpage.columns}
              /\ dkeys[k] = DistinctNames(dpage.columns)
              /\ \A i \in DOMAIN dpage.columns :
                    (i \in DOMAIN dpage.records[k]
                        /\ \A j \in DOMAIN dpage.columns : dpage.columns[j] = dpage.columns[i] => j = i) =>
                        drows[k][dpage.columns[i]] = PolicyValue(dpage.records[k][i])
        /\ dpage = TestPage => drows = << [c \in {"test"} |-> PyInt(1)] >>

====
